---- MODULE Spec2Model ----
(***************************************************************************)
(* A model of homework.py: the fitness tracker's Training hierarchy         *)
(* (Running, SportsWalking, Swimming), the read_package dispatcher, the    *)
(* InfoMessage report with its formatter, and the __main__ driver loop.    *)
(*                                                                         *)
(* Numbers.  Python's int and float values are modelled as exact rationals *)
(* n/d in lowest terms (d > 0); the decimal literals of the source         *)
(* (0.65, 1.38, 0.035, 0.029, 1.1) are the rationals they denote.  The     *)
(* binary rounding of IEEE-754 doubles is not modelled: every equation     *)
(* below is an equation over the rationals.  None and a raised exception   *)
(* are values of the same record shape, told apart by the field k.         *)
(*                                                                         *)
(* Text.  The Cyrillic labels of the message template are written in Latin *)
(* transliteration, since a TLA+ string holds ASCII only.                  *)
(***************************************************************************)
EXTENDS Integers, Sequences, FiniteSets, TLC

VARIABLES packages, idx, pc, training, info, stdout, exc, call, msgs, copy

vars == <<packages, idx, pc, training, info, stdout, exc, call, msgs, copy>>

(***************************************************************************)
(* Values: numbers, None, raised exceptions                                *)
(***************************************************************************)
Abs(x) == IF x < 0 THEN -x ELSE x

RECURSIVE Gcd(_, _)
Gcd(a, b) == IF b = 0 THEN a ELSE Gcd(b, a % b)

\* The number n/d (d # 0), in lowest terms with a positive denominator.
Num(n, d) ==
    LET g == Gcd(Abs(n), Abs(d))
        s == IF d < 0 THEN -1 ELSE 1
    IN  [k |-> "num", n |-> s * (n \div g), d |-> s * (d \div g)]

PyInt(n) == [k |-> "num", n |-> n, d |-> 1]

None == [k |-> "None", n |-> 0, d |-> 1]

Raise(e) == [k |-> e, n |-> 0, d |-> 1]

IsNum(x) == x.k = "num"

IsRaised(x) == x.k \in {"ZeroDivisionError", "TypeError", "KeyError"}

\* A binary arithmetic operator of Python applied to values a and b that are
\* already evaluated: an exception raised while evaluating an operand
\* propagates (the left one first), and an operand that is not a number
\* (None) raises TypeError.
Operands(a, b, r) ==
    IF IsRaised(a) THEN a
    ELSE IF IsRaised(b) THEN b
    ELSE IF ~IsNum(a) \/ ~IsNum(b) THEN Raise("TypeError")
    ELSE r

\* The sum of a and b, over the least common denominator.
Add(a, b) ==
    Operands(a, b,
             LET g == Gcd(a.d, b.d)
             IN  Num(a.n * (b.d \div g) + b.n * (a.d \div g),
                     (a.d \div g) * b.d))

Sub(a, b) == Add(a, Operands(b, b, Num(-b.n, b.d)))

\* The product of a and b; common factors are cancelled crosswise before
\* multiplying, which keeps the intermediate integers small.
Mul(a, b) ==
    Operands(a, b,
             LET g1 == Gcd(Abs(a.n), b.d)
                 g2 == Gcd(Abs(b.n), a.d)
             IN  Num((a.n \div g1) * (b.n \div g2),
                     (a.d \div g2) * (b.d \div g1)))

\* a / b: true division; a zero divisor raises ZeroDivisionError.
TrueDiv(a, b) ==
    Operands(a, b, IF b.n = 0 THEN Raise("ZeroDivisionError")
                   ELSE Mul(a, Num(b.d, b.n)))

\* a // b: the floor of the quotient; a zero divisor raises ZeroDivisionError.
FloorDiv(a, b) ==
    Operands(a, b, IF b.n = 0 THEN Raise("ZeroDivisionError")
                   ELSE LET q == Mul(a, Num(b.d, b.n))
                        IN  PyInt(q.n \div q.d))

\* a ** 2
Square(a) == Mul(a, a)

(***************************************************************************)
(* class Training and its subclasses                                       *)
(***************************************************************************)
M_IN_KM == 1000

Training_LEN_STEP == Num(65, 100)

Swimming_LEN_STEP == Num(138, 100)

\* An attribute the instance's class does not define.
NoAttr == [k |-> "absent", n |-> 0, d |-> 1]

Training_init(action, duration, weight) ==
    [cls |-> "Training", action |-> action, duration |-> duration,
     weight |-> weight, height |-> NoAttr, length_pool |-> NoAttr,
     count_pool |-> NoAttr]

Running_init(action, duration, weight) ==
    [Training_init(action, duration, weight) EXCEPT !.cls = "Running"]

SportsWalking_init(action, duration, weight, height) ==
    [Training_init(action, duration, weight) EXCEPT
        !.cls = "SportsWalking", !.height = height]

\* Mutant: the two pool attributes are assigned crosswise.
Swimming_init_swapped(action, duration, weight, length_pool, count_pool) ==
    [Training_init(action, duration, weight) EXCEPT
        !.cls = "Swimming", !.length_pool = count_pool,
        !.count_pool = length_pool]

Swimming_init(action, duration, weight, length_pool, count_pool) ==
    [Training_init(action, duration, weight) EXCEPT
        !.cls = "Swimming", !.length_pool = length_pool,
        !.count_pool = count_pool]

\* self.LEN_STEP: the class attribute, overridden by Swimming.
LEN_STEP(self) ==
    IF self.cls = "Swimming" THEN Swimming_LEN_STEP ELSE Training_LEN_STEP

\* Mutant: the distance is left in metres.
get_distance_metres(self) == Mul(self.action, LEN_STEP(self))

get_distance(self) ==
    TrueDiv(Mul(self.action, LEN_STEP(self)), PyInt(M_IN_KM))

\* Mutant: a zero duration is caught and gives a speed of 0.
Training_get_mean_speed_guarded(self) ==
    IF IsNum(self.duration) /\ self.duration.n = 0 THEN PyInt(0)
    ELSE TrueDiv(get_distance(self), self.duration)

Training_get_mean_speed(self) == TrueDiv(get_distance(self), self.duration)

\* Mutant: Swimming does not override the method.
Swimming_get_mean_speed_inherited(self) == Training_get_mean_speed(self)

Swimming_get_mean_speed(self) ==
    TrueDiv(TrueDiv(Mul(self.length_pool, self.count_pool), PyInt(M_IN_KM)),
            self.duration)

\* self.get_mean_speed(): Swimming overrides the method.
get_mean_speed(self) ==
    IF self.cls = "Swimming" THEN Swimming_get_mean_speed(self)
    ELSE Training_get_mean_speed(self)

\* The body of the base method is `pass`: the call returns None.
Training_get_spent_calories(self) == None

\* Mutant: the duration is not converted to minutes.
Running_get_spent_calories_hours(self) ==
    LET coeff_calorie_1 == PyInt(18)
        coeff_calorie_2 == PyInt(20)
    IN  Mul(TrueDiv(Mul(Sub(Mul(coeff_calorie_1, get_mean_speed(self)),
                            coeff_calorie_2),
                        self.weight),
                    PyInt(M_IN_KM)),
            self.duration)

Running_get_spent_calories(self) ==
    LET times_in_minutes == Mul(self.duration, PyInt(60))
        coeff_calorie_1 == PyInt(18)
        coeff_calorie_2 == PyInt(20)
    IN  Mul(TrueDiv(Mul(Sub(Mul(coeff_calorie_1, get_mean_speed(self)),
                            coeff_calorie_2),
                        self.weight),
                    PyInt(M_IN_KM)),
            times_in_minutes)

\* Mutant: the squared speed is divided by the height with / instead of //.
SportsWalking_get_spent_calories_truediv(self) ==
    LET time_in_minutes == Mul(self.duration, PyInt(60))
        coeff_calorie_1 == Num(35, 1000)
        coeff_calorie_2 == Num(29, 1000)
    IN  Mul(Add(Mul(coeff_calorie_1, self.weight),
                Mul(Mul(TrueDiv(Square(get_mean_speed(self)), self.height),
                        coeff_calorie_2),
                    self.weight)),
            time_in_minutes)

SportsWalking_get_spent_calories(self) ==
    LET time_in_minutes == Mul(self.duration, PyInt(60))
        coeff_calorie_1 == Num(35, 1000)
        coeff_calorie_2 == Num(29, 1000)
    IN  Mul(Add(Mul(coeff_calorie_1, self.weight),
                Mul(Mul(FloorDiv(Square(get_mean_speed(self)), self.height),
                        coeff_calorie_2),
                    self.weight)),
            time_in_minutes)

Swimming_get_spent_calories(self) ==
    LET coeff_calorie_1 == Num(11, 10)
        coeff_calorie_2 == PyInt(2)
    IN  Mul(Mul(Add(get_mean_speed(self), coeff_calorie_1), coeff_calorie_2),
            self.weight)

\* self.get_spent_calories(): each subclass overrides the method.
get_spent_calories(self) ==
    CASE self.cls = "Running" -> Running_get_spent_calories(self)
      [] self.cls = "SportsWalking" -> SportsWalking_get_spent_calories(self)
      [] self.cls = "Swimming" -> Swimming_get_spent_calories(self)
      [] OTHER -> Training_get_spent_calories(self)

(***************************************************************************)
(* class InfoMessage                                                       *)
(***************************************************************************)
InfoMessage(training_type, duration, distance, speed, calories) ==
    [training_type |-> training_type, duration |-> duration,
     distance |-> distance, speed |-> speed, calories |-> calories]

\* No report: the value of a variable that is not bound to an InfoMessage.
NoInfo == InfoMessage("", NoAttr, NoAttr, NoAttr, NoAttr)

\* No session: the value of a variable that is not bound to a Training.
NoSession == [Training_init(NoAttr, NoAttr, NoAttr) EXCEPT !.cls = ""]

\* The outcome of a call: the exception it raised ("none" when it returned)
\* and the value it returned.
Returned(v) == [err |-> "none", ret |-> v]

Raised(e, v) == [err |-> e, ret |-> v]

\* The first exception raised among the already evaluated values vs, in
\* order, or "none".
RECURSIVE FirstRaised(_)
FirstRaised(vs) ==
    IF vs = <<>> THEN "none"
    ELSE IF IsRaised(Head(vs)) THEN Head(vs).k
    ELSE FirstRaised(Tail(vs))

\* Training.show_training_info: the arguments of the InfoMessage constructor
\* are evaluated left to right, and the first exception leaves the call.
Training_show_training_info(self) ==
    LET distance == get_distance(self)
        speed == get_mean_speed(self)
        calories == get_spent_calories(self)
        e == FirstRaised(<<distance, speed, calories>>)
    IN  IF e # "none" THEN Raised(e, NoInfo)
        ELSE Returned(InfoMessage(self.cls, self.duration, distance, speed,
                                  calories))

\* A method of InfoMessage: the object it leaves behind, what it raised and
\* what it returned.
Method(self, err, ret) == [self |-> self, err |-> err, ret |-> ret]

\* InfoMessage.show_training_info builds a new InfoMessage from the five
\* fields and assigns nothing.
InfoMessage_show_training_info(self) ==
    Method(self, "none",
           InfoMessage(self.training_type, self.duration, self.distance,
                       self.speed, self.calories))

DigitChars == <<"0", "1", "2", "3", "4", "5", "6", "7", "8", "9">>

\* str(n) for a natural number n.
RECURSIVE NatStr(_)
NatStr(n) ==
    IF n < 10 THEN DigitChars[n + 1]
    ELSE NatStr(n \div 10) \o DigitChars[(n % 10) + 1]

\* format(x, '.3f') for a number x: fixed point with exactly three digits
\* after the point, the exact value rounded to the nearest thousandth (a tie
\* to the even one), a leading '-' for a negative value.
Format3f(x) ==
    LET a == Abs(x.n)
        whole == a \div x.d
        rest == a % x.d
        q == (rest * 1000) \div x.d
        r == (rest * 1000) % x.d
        up == (2 * r > x.d) \/ (2 * r = x.d /\ q % 2 = 1)
        t == whole * 1000 + q + (IF up THEN 1 ELSE 0)
        f == t % 1000
    IN  (IF x.n < 0 THEN "-" ELSE "") \o NatStr(t \div 1000) \o "."
        \o DigitChars[(f \div 100) + 1] \o DigitChars[((f \div 10) % 10) + 1]
        \o DigitChars[(f % 10) + 1]

\* The template of get_message filled with the fields of self.
Message(self) ==
    "Tip trenirovki: " \o self.training_type \o "; "
    \o "Dlitelnost: " \o Format3f(self.duration) \o " ch.; "
    \o "Distantsiya: " \o Format3f(self.distance) \o " km; "
    \o "Sr. skorost: " \o Format3f(self.speed) \o " km/ch; "
    \o "Potracheno kkal: " \o Format3f(self.calories) \o "."

\* Some field of self does not accept the format '.3f'.
Unformattable(self) ==
    \E v \in {self.duration, self.distance, self.speed, self.calories} :
        ~IsNum(v)

\* Mutant: the calories are rounded down to a whole number in place, after
\* the message is built.
InfoMessage_get_message_rounding(self) ==
    IF Unformattable(self) THEN Method(self, "TypeError", "")
    ELSE Method([self EXCEPT !.calories = FloorDiv(self.calories, PyInt(1))],
                "none", Message(self))

\* InfoMessage.get_message: str.format fills the template left to right; a
\* field that is not a number (None) does not accept '.3f' and raises
\* TypeError.  Nothing is assigned.
InfoMessage_get_message(self) ==
    IF Unformattable(self) THEN Method(self, "TypeError", "")
    ELSE Method(self, "none", Message(self))

(***************************************************************************)
(* read_package and main                                                   *)
(***************************************************************************)
\* The keys of the dictionary training_type.
training_type == {"SWM", "RUN", "WLK"}

\* training_type[workout_type](*data): the call raises TypeError unless data
\* has exactly the length of the constructor's parameter list.
Construct(workout_type, data) ==
    IF workout_type = "SWM" THEN
        IF Len(data) # 5 THEN Raised("TypeError", NoSession)
        ELSE Returned(Swimming_init(data[1], data[2], data[3], data[4], data[5]))
    ELSE IF workout_type = "RUN" THEN
        IF Len(data) # 3 THEN Raised("TypeError", NoSession)
        ELSE Returned(Running_init(data[1], data[2], data[3]))
    ELSE
        IF Len(data) # 4 THEN Raised("TypeError", NoSession)
        ELSE Returned(SportsWalking_init(data[1], data[2], data[3], data[4]))

\* Mutant: a tag that is not a key falls back to Running.
read_package_default(workout_type, data) ==
    Construct(IF workout_type \in training_type THEN workout_type ELSE "RUN",
              data)

\* read_package: the dictionary lookup raises KeyError for a key that is not
\* in the dictionary.
read_package(workout_type, data) ==
    IF workout_type \notin training_type THEN Raised("KeyError", NoSession)
    ELSE Construct(workout_type, data)

\* main: info = training.show_training_info(); print(info.get_message()).
\* The outcome: the exception raised, the report bound to info and the lines
\* printed.
main(t) ==
    LET shown == Training_show_training_info(t)
        message == InfoMessage_get_message(shown.ret)
    IN  IF shown.err # "none"
        THEN [err |-> shown.err, info |-> NoInfo, out |-> <<>>]
        ELSE IF message.err # "none"
        THEN [err |-> message.err, info |-> message.self, out |-> <<>>]
        ELSE [err |-> "none", info |-> message.self, out |-> <<message.ret>>]

(***************************************************************************)
(* The script under __main__: the loop over packages                        *)
(***************************************************************************)
MaxPackages == 3

Package(workout_type, data) == [workout_type |-> workout_type, data |-> data]

Ints(ns) == [i \in 1..Len(ns) |-> PyInt(ns[i])]

\* The list the script holds.
hardcoded_packages ==
    << Package("SWM", Ints(<<720, 1, 80, 25, 40>>)),
       Package("RUN", Ints(<<15000, 1, 75>>)),
       Package("WLK", Ints(<<9000, 1, 75, 180>>)) >>

\* The entries a package list is drawn from: the three of the script, and
\* entries with an unknown tag, a data list of the wrong length, a zero
\* duration and a zero height.
PackageSet ==
    { hardcoded_packages[i] : i \in 1..3 } \cup
    { Package("XYZ", Ints(<<720, 1, 80, 25, 40>>)),
      Package("XYZ", Ints(<<15000, 1, 75>>)),
      Package("RUN", Ints(<<15000, 1>>)),
      Package("RUN", Ints(<<15000, 0, 75>>)),
      Package("WLK", Ints(<<9000, 0, 75, 180>>)),
      Package("WLK", Ints(<<9000, 1, 75, 0>>)),
      Package("SWM", Ints(<<720, 0, 80, 25, 40>>)) }

PackageLists == UNION { [1..n -> PackageSet] : n \in 0..MaxPackages }

NoCall == [op |-> "", workout_type |-> "", data |-> <<>>]

Init ==
    /\ packages \in PackageLists
    /\ idx = 1
    /\ pc = "for"
    /\ training = NoSession
    /\ info = NoInfo
    /\ stdout = <<>>
    /\ exc = "none"
    /\ call = NoCall
    /\ msgs = <<>>
    /\ copy = NoInfo

\* Mutant: an entry read_package raises for is skipped.
ForReadPackage_skip ==
    /\ pc = "for"
    /\ idx <= Len(packages)
    /\ LET r == read_package(packages[idx].workout_type, packages[idx].data)
       IN  IF r.err # "none"
           THEN /\ idx' = idx + 1
                /\ UNCHANGED <<training, pc>>
           ELSE /\ training' = r.ret
                /\ pc' = "main"
                /\ UNCHANGED idx
    /\ UNCHANGED <<packages, info, stdout, exc, call, msgs, copy>>

\* for workout_type, data in packages: training = read_package(...)
ForReadPackage ==
    /\ pc = "for"
    /\ idx <= Len(packages)
    /\ LET r == read_package(packages[idx].workout_type, packages[idx].data)
       IN  IF r.err # "none"
           THEN /\ exc' = r.err
                /\ pc' = "raised"
                /\ UNCHANGED training
           ELSE /\ training' = r.ret
                /\ pc' = "main"
                /\ UNCHANGED exc
    /\ UNCHANGED <<packages, idx, info, stdout, call, msgs, copy>>

\* main(training), then the next iteration
ForMain ==
    /\ pc = "main"
    /\ LET r == main(training)
       IN  /\ info' = r.info
           /\ stdout' = stdout \o r.out
           /\ IF r.err # "none"
              THEN /\ exc' = r.err
                   /\ pc' = "raised"
                   /\ UNCHANGED idx
              ELSE /\ idx' = idx + 1
                   /\ pc' = "for"
                   /\ UNCHANGED exc
    /\ UNCHANGED <<packages, training, call, msgs, copy>>

\* The list is exhausted: the script ends normally.
ForExit ==
    /\ pc = "for"
    /\ idx > Len(packages)
    /\ pc' = "exit"
    /\ UNCHANGED <<packages, idx, training, info, stdout, exc, call, msgs, copy>>

Next == ForReadPackage \/ ForMain \/ ForExit

Spec == Init /\ [][Next]_vars

(***************************************************************************)
(* A caller of the classes and of read_package: one session is built from  *)
(* the arguments drawn at the start, its report is derived, and the report *)
(* is formatted and copied any number of times.                            *)
(***************************************************************************)
MaxArgs == 6

MaxCalls == 3

workout_types == {"SWM", "RUN", "WLK", "XYZ", "swm"}

\* The values the argument at position i is drawn from: action, duration,
\* weight, height or length_pool, count_pool, and further arguments.
ArgValues(i) ==
    CASE i = 1 -> {PyInt(0), PyInt(720), PyInt(9000), PyInt(15000)}
      [] i = 2 -> {PyInt(0), Num(1, 2), PyInt(1)}
      [] i = 3 -> {PyInt(75), PyInt(80)}
      [] i = 4 -> {PyInt(0), PyInt(-7), PyInt(3), PyInt(25), PyInt(180)}
      [] i = 5 -> {PyInt(0), PyInt(40)}
      [] OTHER -> {PyInt(1)}

\* The data lists of length n.
RECURSIVE DataOfLen(_)
DataOfLen(n) ==
    IF n = 0 THEN {<<>>}
    ELSE { Append(d, v) : d \in DataOfLen(n - 1), v \in ArgValues(n) }

DataLists == UNION { DataOfLen(n) : n \in 0..MaxArgs }

Calls ==
    { [op |-> "read_package", workout_type |-> w, data |-> d] :
        w \in workout_types, d \in DataLists } \cup
    { [op |-> "Training", workout_type |-> "", data |-> d] :
        d \in { x \in DataLists : Len(x) = 3 } }

InitAPI ==
    /\ packages = <<>>
    /\ idx = 1
    /\ pc = "call"
    /\ training = NoSession
    /\ info = NoInfo
    /\ stdout = <<>>
    /\ exc = "none"
    /\ call \in Calls
    /\ msgs = <<>>
    /\ copy = NoInfo

\* training = read_package(workout_type, data)
CallReadPackage ==
    /\ pc = "call"
    /\ call.op = "read_package"
    /\ LET r == read_package(call.workout_type, call.data)
       IN  /\ training' = r.ret
           /\ exc' = r.err
           /\ pc' = IF r.err = "none" THEN "session" ELSE "raised"
    /\ UNCHANGED <<packages, idx, info, stdout, call, msgs, copy>>

\* training = Training(action, duration, weight): the base class itself
NewTraining ==
    /\ pc = "call"
    /\ call.op = "Training"
    /\ training' = Training_init(call.data[1], call.data[2], call.data[3])
    /\ pc' = "session"
    /\ UNCHANGED <<packages, idx, info, stdout, exc, call, msgs, copy>>

\* info = training.show_training_info()
CallShowTrainingInfo ==
    /\ pc = "session"
    /\ LET r == Training_show_training_info(training)
       IN  /\ info' = r.ret
           /\ exc' = r.err
           /\ pc' = IF r.err = "none" THEN "report" ELSE "raised"
    /\ UNCHANGED <<packages, idx, training, stdout, call, msgs, copy>>

\* msgs.append(info.get_message())
CallGetMessage ==
    /\ pc = "report"
    /\ Len(msgs) < MaxCalls
    /\ LET r == InfoMessage_get_message(info)
       IN  /\ info' = r.self
           /\ exc' = r.err
           /\ msgs' = IF r.err = "none" THEN Append(msgs, r.ret) ELSE msgs
           /\ pc' = IF r.err = "none" THEN "report" ELSE "raised"
    /\ UNCHANGED <<packages, idx, training, stdout, call, copy>>

\* copy = info.show_training_info()
CallInfoShowTrainingInfo ==
    /\ pc = "report"
    /\ LET r == InfoMessage_show_training_info(info)
       IN  /\ info' = r.self
           /\ copy' = r.ret
    /\ UNCHANGED <<packages, idx, pc, training, stdout, exc, call, msgs>>

NextAPI ==
    \/ CallReadPackage
    \/ NewTraining
    \/ CallShowTrainingInfo
    \/ CallGetMessage
    \/ CallInfoShowTrainingInfo

SpecAPI == InitAPI /\ [][NextAPI]_vars

(***************************************************************************)
(* Properties                                                              *)
(***************************************************************************)
\* The number x equals the quotient n/d of the integers n and d > 0: x is in
\* lowest terms, so it is n/d reduced.
RatEq(x, n, d) ==
    LET g == Gcd(Abs(n), d)
    IN  d > 0 /\ x.k = "num" /\ x.n = n \div g /\ x.d = d \div g

KnownTags == {"SWM", "RUN", "WLK"}

Arity(w) == CASE w = "SWM" -> 5 [] w = "RUN" -> 3 [] w = "WLK" -> 4 [] OTHER -> -1

ClassOf(w) ==
    CASE w = "SWM" -> "Swimming" [] w = "RUN" -> "Running"
      [] w = "WLK" -> "SportsWalking" [] OTHER -> ""

\* C1: for every tag outside {"SWM","RUN","WLK"} and every data list,
\* read_package fails with the lookup's error (KeyError, the unknown workout
\* type): no session is returned, of no variant.
C1_UnknownTagRaises ==
    (call.op = "read_package" /\ call.workout_type \notin KnownTags
        /\ pc # "call")
    => (pc = "raised" /\ exc = "KeyError" /\ training = NoSession
        /\ info = NoInfo)

C1_Witness ==
    /\ call.op = "read_package" /\ call.workout_type = "XYZ"
    /\ Len(call.data) = 5
    /\ pc = "raised" /\ exc = "KeyError" /\ training = NoSession

\* C2: read_package(tag, data) returns a session if and only if tag is one
\* of SWM/RUN/WLK and len(data) is the arity of its variant (5, 3, 4); the
\* session returned is of the variant mapped to the tag and holds the data
\* elements in positional order.
C2_ReadPackageConstructs ==
    (call.op = "read_package" /\ pc # "call")
    => LET w == call.workout_type
           d == call.data
       IN  /\ (training # NoSession)
                <=> (w \in KnownTags /\ Len(d) = Arity(w))
           /\ (training = NoSession) <=> (exc \in {"KeyError", "TypeError"})
           /\ training # NoSession =>
                /\ training.cls = ClassOf(w)
                /\ training.action = d[1]
                /\ training.duration = d[2]
                /\ training.weight = d[3]
                /\ training.height = IF w = "WLK" THEN d[4] ELSE NoAttr
                /\ training.length_pool = IF w = "SWM" THEN d[4] ELSE NoAttr
                /\ training.count_pool = IF w = "SWM" THEN d[5] ELSE NoAttr

C2_Witness ==
    /\ call.op = "read_package" /\ call.workout_type = "SWM"
    /\ call.data = Ints(<<720, 1, 80, 25, 40>>)
    /\ pc = "session"
    /\ training.cls = "Swimming"
    /\ training.length_pool = PyInt(25) /\ training.count_pool = PyInt(40)

\* The processing of entry p neither raises in read_package nor in main: a
\* known tag, a data list of the variant's arity, a nonzero duration and,
\* for walking, a nonzero height.
Processable(p) ==
    /\ p.workout_type \in KnownTags
    /\ Len(p.data) = Arity(p.workout_type)
    /\ p.data[2].n # 0
    /\ p.workout_type = "WLK" => p.data[4].n # 0

\* The line main prints for entry p.
LineOf(p) == main(read_package(p.workout_type, p.data).ret).out[1]

Ended == pc \in {"exit", "raised"}

\* C3 (as amended): the script processes the list strictly in order, one
\* line per entry: at every moment the lines printed are those of the
\* entries before the current one, in list order; a run that ends normally
\* has printed one line per entry (the swimming, running and walking lines
\* for the list of the script); no line is ever printed for an entry with an
\* unknown tag or for an entry after it; and when the first entry that
\* fails is at position i and has an unknown tag, the run ends with
\* KeyError having printed exactly the lines of the entries before i.
C3_InOrderUntilFirstFailure ==
    /\ Len(stdout) = idx - 1
    /\ \A j \in 1..Len(stdout) : stdout[j] = LineOf(packages[j])
    /\ pc = "exit" => Len(stdout) = Len(packages)
    /\ (pc = "exit" /\ packages = hardcoded_packages) =>
          stdout = << "Tip trenirovki: Swimming; Dlitelnost: 1.000 ch.; "
                      \o "Distantsiya: 0.994 km; Sr. skorost: 1.000 km/ch; "
                      \o "Potracheno kkal: 336.000.",
                      "Tip trenirovki: Running; Dlitelnost: 1.000 ch.; "
                      \o "Distantsiya: 9.750 km; Sr. skorost: 9.750 km/ch; "
                      \o "Potracheno kkal: 699.750.",
                      "Tip trenirovki: SportsWalking; Dlitelnost: 1.000 ch.; "
                      \o "Distantsiya: 5.850 km; Sr. skorost: 5.850 km/ch; "
                      \o "Potracheno kkal: 157.500." >>
    /\ \A i \in 1..Len(packages) :
          packages[i].workout_type \notin KnownTags =>
             /\ Len(stdout) < i
             /\ (Ended /\ \A j \in 1..(i - 1) : Processable(packages[j])) =>
                   (pc = "raised" /\ exc = "KeyError" /\ idx = i
                    /\ Len(stdout) = i - 1)

C3_Witness ==
    /\ Len(packages) = 3
    /\ packages[1] = hardcoded_packages[1]
    /\ packages[2].workout_type = "XYZ"
    /\ Processable(packages[3])
    /\ pc = "raised" /\ exc = "KeyError" /\ idx = 2
    /\ stdout = <<LineOf(packages[1])>>

\* C3 (as stated): whenever the entry at position i has an unknown tag, a
\* run that has ended has printed exactly the lines of the entries before i.
C3_AsStated ==
    \A i \in 1..Len(packages) :
        (Ended /\ packages[i].workout_type \notin KnownTags) =>
            Len(stdout) = i - 1

\* The report bound to info is that of the entry before the current one.
JustPrinted(p) == pc \in {"for", "exit"} /\ idx > 1 /\ packages[idx - 1] = p

\* C6 (as amended): for the Running session built from action=15000,
\* duration=1, weight=75, the report has distance 9.75 km, mean speed
\* 9.75 km/h and calories 699.75.
C6_RunningExample ==
    JustPrinted(hardcoded_packages[2]) =>
        /\ info.training_type = "Running"
        /\ RatEq(info.duration, 1, 1)
        /\ RatEq(info.distance, 975, 100)
        /\ RatEq(info.speed, 975, 100)
        /\ RatEq(info.calories, 69975, 100)

C6_Witness ==
    /\ packages = hardcoded_packages
    /\ JustPrinted(hardcoded_packages[2])
    /\ RatEq(info.calories, 69975, 100)
    /\ Len(stdout) = 2

\* C6 (as stated): the report of that session has distance 9.75 km, mean
\* speed 9.75 km/h and calories within 0.001 of 729.375.
C6_AsStated ==
    JustPrinted(hardcoded_packages[2]) =>
        /\ RatEq(info.distance, 975, 100)
        /\ RatEq(info.speed, 975, 100)
        /\ Abs(info.calories.n * 1000 - 729375 * info.calories.d)
              <= info.calories.d

\* Entry p is constructed by read_package and has a zero duration or, for
\* walking, a zero height.
ZeroDivisor(p) ==
    /\ p.workout_type \in KnownTags
    /\ Len(p.data) = Arity(p.workout_type)
    /\ \/ p.data[2].n = 0
       \/ p.workout_type = "WLK" /\ p.data[4].n = 0

\* C9: a session with duration = 0 (of any of the three variants), or a
\* walking session with height = 0, is constructed without validation (the
\* zero is stored in the session), and deriving its report raises
\* ZeroDivisionError: no report is produced, no line is printed for that
\* entry, and the loop does not go on.
C9_ZeroDivisionFatal ==
    \A i \in 1..Len(packages) :
        ZeroDivisor(packages[i]) =>
            /\ idx <= i
            /\ Len(stdout) < i
            /\ (idx = i /\ pc \in {"main", "raised"}) =>
                  /\ training.cls = ClassOf(packages[i].workout_type)
                  /\ training.duration = packages[i].data[2]
                  /\ packages[i].workout_type = "WLK" =>
                        training.height = packages[i].data[4]
            /\ (idx = i /\ Ended) =>
                  /\ pc = "raised"
                  /\ exc = "ZeroDivisionError"
                  /\ info = NoInfo

C9_Witness ==
    /\ Len(packages) = 3 /\ idx = 2 /\ Len(stdout) = 1
    /\ packages[2].workout_type = "WLK"
    /\ packages[2].data[2].n # 0 /\ packages[2].data[4].n = 0
    /\ Processable(packages[3])
    /\ pc = "raised" /\ exc = "ZeroDivisionError"
    /\ training.cls = "SportsWalking" /\ training.height = PyInt(0)

\* C4: the calorie computation of the unspecialized base Training signals a
\* fatal error instead of returning a value, so show_training_info on a base
\* Training never yields a report.
C4_BaseCaloriesRaise ==
    (call.op = "Training" /\ pc \notin {"call", "session"})
    => (info = NoInfo /\ exc # "none")

\* Report of the current session: the session's report has been derived.
Reported(cls) == pc = "report" /\ training.cls = cls

\* C5: for every Running session with duration # 0 the report has
\* distance = action * 0.65 / 1000, mean speed = distance / duration and
\* calories = (18 * mean_speed - 20) * weight / 1000 * duration * 60.
C5_RunningFormulas ==
    (call.op = "read_package" /\ call.workout_type = "RUN"
        /\ Len(call.data) = 3 /\ call.data[2].n # 0 /\ pc # "call")
    => LET a == call.data[1]
           t == call.data[2]
           w == call.data[3]
           s == info.speed
       IN  /\ pc \in {"session", "report"}
           /\ pc = "report" =>
                /\ info.training_type = "Running"
                /\ info.duration = t
                \* distance = action * 65 / 100000
                /\ RatEq(info.distance, a.n * 65, a.d * 100000)
                \* speed = distance / duration
                /\ RatEq(s, info.distance.n * t.d, info.distance.d * t.n)
                \* calories = (18 s - 20) * w * t * 60 / 1000
                /\ RatEq(info.calories,
                         (18 * s.n - 20 * s.d) * w.n * t.n * 60,
                         s.d * w.d * t.d * 1000)

C5_Witness ==
    /\ Reported("Running")
    /\ training.action = PyInt(9000) /\ training.duration = Num(1, 2)
    /\ training.weight = PyInt(80)
    /\ RatEq(info.speed, 117, 10)
    /\ RatEq(info.calories, 45744, 100)

\* The integers a floored quotient is looked for in.
FloorRange == -200..200

\* C7: for every walking session with duration # 0 and height # 0,
\* calories = (0.035 * weight + floor(mean_speed^2 / height) * 0.029 * weight)
\* * duration * 60, the quotient being floored and not a true division: m is
\* the floor when m <= mean_speed^2 / height < m + 1.  Whenever
\* mean_speed^2 < height the speed term is 0 and
\* calories = 0.035 * weight * duration * 60; that is 157.5 for action=9000,
\* duration=1, weight=75, height=180.
C7_WalkingFloorDivision ==
    (call.op = "read_package" /\ call.workout_type = "WLK"
        /\ Len(call.data) = 4 /\ call.data[2].n # 0 /\ call.data[4].n # 0
        /\ pc # "call")
    => LET t == call.data[2]
           w == call.data[3]
           h == call.data[4]
           s == info.speed
           sg == IF h.n < 0 THEN -1 ELSE 1
           \* mean_speed^2 / height = N / D in lowest terms, with D > 0
           g == Gcd(s.n * s.n * h.d, Abs(s.d * s.d * h.n))
           N == (sg * s.n * s.n * h.d) \div g
           D == (sg * s.d * s.d * h.n) \div g
       IN  /\ pc \in {"session", "report"}
           /\ pc = "report" =>
                /\ \E m \in FloorRange :
                      /\ m * D <= N /\ N < (m + 1) * D
                      /\ RatEq(info.calories,
                               (35 * w.n + m * 29 * w.n) * t.n * 60,
                               1000 * w.d * t.d)
                /\ (h.n > 0 /\ N < D) =>
                      RatEq(info.calories, 35 * w.n * t.n * 60,
                            1000 * w.d * t.d)
                /\ call.data = Ints(<<9000, 1, 75, 180>>) =>
                      RatEq(info.calories, 1575, 10)

\* action=9000, duration=1, weight=75, height=3: mean_speed^2 / height is
\* 11.4075, floored to 11, and calories = (2.625 + 11 * 2.175) * 60 = 1593.
C7_Witness ==
    /\ Reported("SportsWalking")
    /\ call.data = Ints(<<9000, 1, 75, 3>>)
    /\ RatEq(info.speed, 585, 100)
    /\ RatEq(info.calories, 1593, 1)

\* C8: for every swimming session with duration # 0,
\* mean speed = length_pool * count_pool / 1000 / duration and
\* calories = (mean_speed + 1.1) * 2 * weight, both the same for every action
\* count, while distance = action * 1.38 / 1000; for action=720, duration=1,
\* weight=80 and a pool of 25 x 40 the speed is 1.0 and the calories 336.0.
C8_SwimmingFormulas ==
    (call.op = "read_package" /\ call.workout_type = "SWM"
        /\ Len(call.data) = 5 /\ call.data[2].n # 0 /\ pc # "call")
    => LET a == call.data[1]
           t == call.data[2]
           w == call.data[3]
           lp == call.data[4]
           cp == call.data[5]
           s == info.speed
       IN  /\ pc \in {"session", "report"}
           /\ pc = "report" =>
                /\ RatEq(s, lp.n * cp.n * t.d, lp.d * cp.d * 1000 * t.n)
                /\ RatEq(info.calories, (10 * s.n + 11 * s.d) * 2 * w.n,
                         10 * s.d * w.d)
                /\ RatEq(info.distance, a.n * 138, a.d * 100000)
                /\ \A a2 \in ArgValues(1) :
                      LET other == Training_show_training_info(
                                       [training EXCEPT !.action = a2]).ret
                      IN  /\ other.speed = info.speed
                          /\ other.calories = info.calories
                /\ call.data = Ints(<<720, 1, 80, 25, 40>>) =>
                      /\ RatEq(s, 1, 1)
                      /\ RatEq(info.calories, 336, 1)

\* action=9000, half an hour, weight=80, 25 x 40: speed 2, calories 496.
C8_Witness ==
    /\ Reported("Swimming")
    /\ training.action = PyInt(9000) /\ training.duration = Num(1, 2)
    /\ training.weight = PyInt(80)
    /\ training.length_pool = PyInt(25) /\ training.count_pool = PyInt(40)
    /\ RatEq(info.speed, 2, 1)
    /\ RatEq(info.calories, 496, 1)
    /\ RatEq(info.distance, 1242, 100)

\* C10: formatting is idempotent and read-only: all the get_message calls on
\* a report return the same string, and after any number of get_message and
\* InfoMessage.show_training_info calls the report still has the five fields
\* it was created with (the copy returned has them too).
C10_FormattingReadOnly ==
    info # NoInfo =>
        /\ info = Training_show_training_info(training).ret
        /\ \A i \in 1..Len(msgs) : msgs[i] = msgs[1]
        /\ copy # NoInfo => copy = info

C10_Witness ==
    /\ Reported("Running")
    /\ Len(msgs) = MaxCalls
    /\ copy = info
    /\ msgs[1] = "Tip trenirovki: Running; Dlitelnost: 0.500 ch.; "
                 \o "Distantsiya: 0.000 km; Sr. skorost: 0.000 km/ch; "
                 \o "Potracheno kkal: -45.000."
    /\ msgs[MaxCalls] = msgs[1]

====
